---- MODULE Spec2Model ----
(***************************************************************************)
(* pokebay: cheapest basket of single-card eBay listings.                  *)
(* One run of main: concurrent listing fetches through the query cache,    *)
(* construction of the ILP, the blocking solve, the decoding of the raw    *)
(* assignment and the CSV export.                                          *)
(*                                                                         *)
(* Encodings.  Prices and shipping costs are integers.  A template string  *)
(* `x_${id}` is the pair <<"x_", id>>, so startsWith and slice(2) are the  *)
(* two projections.  A solver value v is stored as 10*v, so the decoder's  *)
(* test `val > 0.5` is `val > Half`.                                       *)
(***************************************************************************)
EXTENDS Integers, Sequences, FiniteSets, TLC

\* ---------------------------------------------------------------- bounds
MaxCards == 2
MaxItems == 2
MaxTime == 2
MaxRunCards == 1
MaxCalls == 2

\* ------------------------------------------------------------- constants
\* Solution statuses of the engine, by name.
GLP_UNDEF == "GLP_UNDEF"
GLP_NOFEAS == "GLP_NOFEAS"
GLP_OPT == "GLP_OPT"

\* 0.5 and 1 in tenths.
Half == 5
One == 2 * Half

None == "none"

\* ----------------------------------------------------------- input pools
\* Cards the catalog provider can return.  Two cards share a name.
CardPool ==
  { [name |-> "Pikachu", cardNumber |-> "001/142", setName |-> "SC"],
    [name |-> "Pikachu", cardNumber |-> "050/142", setName |-> "SC"],
    [name |-> "Eevee", cardNumber |-> "002/142", setName |-> "SC"] }

\* Item summaries eBay can return, in the order it returns them.  A missing
\* text field is None; a numeric field is <<v>>, or <<>> when missing.
ItemSeq ==
  << [itemId |-> "i1", epid |-> None, title |-> "t1", seller |-> "A",
      price |-> <<10>>, shipCost |-> <<5>>, itemWebUrl |-> "u1"],
     [itemId |-> "i2", epid |-> None, title |-> "t2", seller |-> "B",
      price |-> <<8>>, shipCost |-> <<1>>, itemWebUrl |-> "u2"],
     [itemId |-> None, epid |-> "e3", title |-> "t3", seller |-> None,
      price |-> <<12>>, shipCost |-> <<>>, itemWebUrl |-> None] >>

RECURSIVE SubSeqsFrom(_, _)
SubSeqsFrom(s, k) ==
  IF k > Len(s) THEN { <<>> }
  ELSE LET rest == SubSeqsFrom(s, k + 1)
       IN  rest \cup { <<s[k]>> \o r : r \in rest }

\* The bodies eBay can answer a search with: at most MaxItems summaries.
Responses == { r \in SubSeqsFrom(ItemSeq, 1) : Len(r) <= MaxItems }

CardLists == UNION { [1..n -> CardPool] : n \in 0..MaxCards }

\* ------------------------------------------------------- generic helpers
RECURSIVE SumTo(_, _)
SumTo(s, n) == IF n = 0 THEN 0 ELSE s[n] + SumTo(s, n - 1)

SumSeq(s) == SumTo(s, Len(s))

RECURSIVE Flat(_)
Flat(ss) == IF ss = <<>> THEN <<>> ELSE Head(ss) \o Flat(Tail(ss))

Range(s) == { s[i] : i \in 1..Len(s) }

Max2(a, b) == IF a >= b THEN a ELSE b

\* Insertion order of a JavaScript Set / object keys: first occurrences.
RECURSIVE Dedup(_)
Dedup(s) ==
  IF s = <<>> THEN <<>>
  ELSE LET front == Dedup(SubSeq(s, 1, Len(s) - 1))
           last == s[Len(s)]
       IN  IF last \in Range(front) THEN front ELSE Append(front, last)

\* ------------------------------------------------------------ ebayApi.mjs
buildSearchQuery(cardData) ==
  << cardData.name, cardData.cardNumber, cardData.setName >>

Or(a, b) == IF a = None THEN b ELSE a

ParseOrZero(v) == IF v = <<>> THEN 0 ELSE v[1]

ToListing(item, cardData) ==
  [ listingId |-> Or(Or(item.itemId, item.epid), item.title),
    card |-> cardData.name,
    cardNumber |-> cardData.cardNumber,
    price |-> ParseOrZero(item.price),
    shipping |-> ParseOrZero(item.shipCost),
    seller |-> IF item.seller = None THEN "UnknownSeller" ELSE item.seller,
    itemWebUrl |-> IF item.itemWebUrl = None THEN "" ELSE item.itemWebUrl ]

MapListings(items, cardData) ==
  [ k \in 1..Len(items) |-> ToListing(items[k], cardData) ]

\* ----------------------------------------------------------- ilpModel.mjs
XName(listing) == << "x_", listing.listingId >>
YName(seller) == << "y_", seller >>

SellersOf(listings) ==
  Dedup([ k \in 1..Len(listings) |-> listings[k].seller ])

RECURSIVE Filter(_, _)
Filter(listings, name) ==
  IF listings = <<>> THEN <<>>
  ELSE IF Head(listings).card = name
       THEN <<Head(listings)>> \o Filter(Tail(listings), name)
       ELSE Filter(Tail(listings), name)

ObjectiveVars(listings) ==
  [ k \in 1..Len(listings) |->
      [ name |-> XName(listings[k]), coef |-> listings[k].price ] ]

BinaryVarNames(listings) ==
  [ k \in 1..Len(listings) |-> XName(listings[k]) ]
  \o [ k \in 1..Len(SellersOf(listings)) |-> YName(SellersOf(listings)[k]) ]

CoverageRow(listings, cardObj) ==
  LET relevantListings == Filter(listings, cardObj.name)
  IN  IF Len(relevantListings) = 0 THEN <<>>
      ELSE << [ name |-> << "exactly_one_", cardObj.name >>,
                vars |-> [ k \in 1..Len(relevantListings) |->
                            [ name |-> XName(relevantListings[k]), coef |-> 1 ] ],
                bnds |-> [ type |-> "GLP_FX", lb |-> 1, ub |-> 1 ] ] >>

CoverageRows(listings, missingCards) ==
  Flat([ j \in 1..Len(missingCards) |-> CoverageRow(listings, missingCards[j]) ])

ActivationRowsReversed(listings) ==
  [ k \in 1..Len(listings) |->
      [ name |-> << "activation_", listings[k].listingId >>,
        vars |-> << [ name |-> XName(listings[k]), coef |-> 0 - 1 ],
                    [ name |-> YName(listings[k].seller), coef |-> 1 ] >>,
        bnds |-> [ type |-> "GLP_UP", lb |-> 0, ub |-> 0 ] ] ]

ActivationRows(listings) ==
  [ k \in 1..Len(listings) |->
      [ name |-> << "activation_", listings[k].listingId >>,
        vars |-> << [ name |-> XName(listings[k]), coef |-> 1 ],
                    [ name |-> YName(listings[k].seller), coef |-> 0 - 1 ] >>,
        bnds |-> [ type |-> "GLP_UP", lb |-> 0, ub |-> 0 ] ] ]

buildIlpModel(listings, missingCards) ==
  [ kind |-> "model",
    objective |-> ObjectiveVars(listings),
    subjectTo |-> CoverageRows(listings, missingCards) \o ActivationRows(listings),
    binaries |-> BinaryVarNames(listings) ]

\* ------------------------------------------------- glpk.js solve contract
\* Columns in creation order; every column is binary.
Cols(model) == Dedup(model.binaries)

\* A name listed twice in one linear form: the engine either adds the
\* coefficients ("sum") or keeps the last one ("last").
Counts(terms, k, pol) ==
  \/ pol = "sum"
  \/ \A m \in (k + 1)..Len(terms) : terms[m].name # terms[k].name

RECURSIVE LinValTo(_, _, _, _)
LinValTo(terms, a, pol, n) ==
  IF n = 0 THEN 0
  ELSE ( IF Counts(terms, n, pol) THEN terms[n].coef * a[terms[n].name] ELSE 0 )
       + LinValTo(terms, a, pol, n - 1)

LinVal(terms, a, pol) == LinValTo(terms, a, pol, Len(terms))

RowHolds(row, a, pol) ==
  LET v == LinVal(row.vars, a, pol)
  IN  IF row.bnds.type = "GLP_FX" THEN v = row.bnds.lb ELSE v <= row.bnds.ub

Feasible(model, cols, pol) ==
  LET rows == Range(model.subjectTo)
  IN  { a \in [ Range(cols) -> {0, 1} ] : \A row \in rows : RowHolds(row, a, pol) }

ObjVal(model, a, pol) == LinVal(model.objective, a, pol)

\* GLP_MIN: the feasible assignments of least objective value.
Optimal(model, cols, pol) ==
  LET feas == Feasible(model, cols, pol)
      zs == { ObjVal(model, a, pol) : a \in feas }
      zmin == CHOOSE z \in zs : \A y \in zs : z <= y
  IN  { a \in feas : ObjVal(model, a, pol) = zmin }

VarsOf(cols, a) ==
  [ c \in 1..Len(cols) |-> [ name |-> cols[c], val |-> One * a[cols[c]] ] ]

ZeroVars(cols) == [ c \in 1..Len(cols) |-> [ name |-> cols[c], val |-> 0 ] ]

HasDuplicate(terms) ==
  \E k, m \in 1..Len(terms) : k < m /\ terms[k].name = terms[m].name

\* The readings of the program under which its results can differ.
Policies(model) ==
  IF \/ HasDuplicate(model.objective)
     \/ \E r \in 1..Len(model.subjectTo) : HasDuplicate(model.subjectTo[r].vars)
  THEN { "sum", "last" }
  ELSE { "sum" }

ResultsUnder(model, cols, pol) ==
  LET opt == Optimal(model, cols, pol)
  IN  IF opt = {}
      THEN { [ kind |-> "result", status |-> GLP_NOFEAS,
               vars |-> ZeroVars(cols), z |-> 0 ] }
      ELSE { [ kind |-> "result", status |-> GLP_OPT,
               vars |-> VarsOf(cols, a), z |-> ObjVal(model, a, pol) ]
             : a \in opt }

\* Everything solver.solve(model) may hand back: an optimum, a verdict of
\* infeasibility, or an engine failure (status left undefined).
SolveResults(model) ==
  LET cols == Cols(model)
  IN  UNION { ResultsUnder(model, cols, pol) : pol \in Policies(model) }
      \cup { [ kind |-> "result", status |-> GLP_UNDEF,
               vars |-> ZeroVars(cols), z |-> 0 ] }

\* ------------------------------------------------------ solveIlp decoding
StatusNotInfeasible(status) == status # GLP_NOFEAS

StatusOk(status) == status = GLP_OPT

FindListing(listings, listingId) ==
  LET idx == { k \in 1..Len(listings) : listings[k].listingId = listingId }
  IN  IF idx = {} THEN <<>>
      ELSE << listings[CHOOSE k \in idx : \A m \in idx : k <= m] >>

IsSetAtHalf(val) == val >= Half

IsSet(val) == val > Half

ChosenListings(vars, listings) ==
  Flat([ k \in 1..Len(vars) |->
           IF IsSet(vars[k].val) /\ vars[k].name[1] = "x_"
           THEN FindListing(listings, vars[k].name[2])
           ELSE <<>> ])

ChosenSellers(vars) ==
  Flat([ k \in 1..Len(vars) |->
           IF IsSet(vars[k].val) /\ vars[k].name[1] = "y_"
           THEN << vars[k].name[2] >>
           ELSE <<>> ])

solveIlp(res, listings) ==
  IF ~StatusOk(res.status) THEN [ kind |-> "null" ]
  ELSE [ kind |-> "solution",
         totalCost |-> res.z,
         chosenListings |-> ChosenListings(res.vars, listings),
         chosenSellers |-> ChosenSellers(res.vars) ]

\* ------------------------------------------------------------- utils.mjs
\* Array.prototype.sort is stable: insertion by seller name.  Sellers are
\* compared through their rank in SellerOrder (localeCompare).
SellerOrder == << "A", "B", "UnknownSeller" >>
Rank(seller) == CHOOSE k \in 1..Len(SellerOrder) : SellerOrder[k] = seller

RECURSIVE SortBySeller(_)
SortBySeller(ls) ==
  IF ls = <<>> THEN <<>>
  ELSE LET front == SortBySeller(SubSeq(ls, 1, Len(ls) - 1))
           x == ls[Len(ls)]
           keep == { k \in 1..Len(front) : Rank(front[k].seller) <= Rank(x.seller) }
           n == Cardinality(keep)
       IN  SubSeq(front, 1, n) \o << x >> \o SubSeq(front, n + 1, Len(front))

CsvRows(chosenListings) ==
  [ k \in 1..Len(chosenListings) |->
      << chosenListings[k].card, chosenListings[k].seller,
         chosenListings[k].price, chosenListings[k].shipping,
         chosenListings[k].itemWebUrl >> ]

FileName(filepath, timestamp) == << filepath, timestamp >>

\* ------------------------------------------------------------------ state
VARIABLES
  missingCards,  \* MISSING_CARDS
  ebayCache,     \* query -> listings
  calls,         \* one fetchSingleCardListings call per card
  errorLog,      \* card names written by logger.error in the fetch catch
  pc,            \* position of main
  listings,      \* result of fetchAllSingleCardListings
  model,         \* result of buildIlpModel
  result,        \* what solver.solve returned
  solution,      \* what solveIlp returned
  varsRead,      \* solveIlp iterated over result.vars
  files,         \* file name -> csv rows, on disk
  now,           \* wall clock
  trace          \* steps of main taken so far

vars == << missingCards, ebayCache, calls, errorLog, pc, listings, model,
           result, solution, varsRead, files, now, trace >>

EmptyMap == [ q \in {} |-> <<>> ]

Init ==
  /\ missingCards \in CardLists
  /\ ebayCache = EmptyMap
  /\ calls = <<>>
  /\ errorLog = {}
  /\ pc = "start"
  /\ listings = <<>>
  /\ model = [ kind |-> "unset" ]
  /\ result = [ kind |-> "unset" ]
  /\ solution = [ kind |-> "unset" ]
  /\ varsRead = FALSE
  /\ files = EmptyMap
  /\ now = 0
  /\ trace = <<>>

\* ---------------------------------------------- fetchSingleCardListings
\* Lines 16-33: up to the first await.  A cached query returns at once,
\* any other issues the upstream request.
BeginCall(cardData, cache) ==
  LET query == buildSearchQuery(cardData)
  IN  IF query \in DOMAIN cache
      THEN [ card |-> cardData, st |-> "done", failed |-> FALSE,
             cached |-> TRUE, result |-> cache[query] ]
      ELSE [ card |-> cardData, st |-> "inflight", failed |-> FALSE,
             cached |-> FALSE, result |-> <<>> ]

\* The catch block: log, return [].
Caught(call) ==
  [ call EXCEPT !.st = "done", !.failed = TRUE, !.result = <<>> ]

CacheReplace(cache, query, value) == [ q \in { query } |-> value ]

CacheSet(cache, query, value) ==
  [ q \in DOMAIN cache \cup { query } |-> IF q = query THEN value ELSE cache[q] ]

AnyDone(cs) == \E i \in 1..Len(cs) : cs[i].st = "done"

\* Promise.all: settled once every call has returned.
AllDone(cs) == \A i \in 1..Len(cs) : cs[i].st = "done"

FlatUnlessFailed(cs) ==
  IF \E i \in 1..Len(cs) : cs[i].failed THEN <<>>
  ELSE Flat([ i \in 1..Len(cs) |-> cs[i].result ])

CollectedLastFirst(cs) ==
  Flat([ i \in 1..Len(cs) |-> cs[Len(cs) + 1 - i].result ])

\* listingsArray.flat()
Collected(cs) == Flat([ i \in 1..Len(cs) |-> cs[i].result ])

\* main calls fetchAllSingleCardListings: cards.map starts every call, each
\* running synchronously to its first await; then Promise.all is awaited.
StartFetchAll ==
  /\ pc = "start"
  /\ calls' = [ i \in 1..Len(missingCards) |-> BeginCall(missingCards[i], ebayCache) ]
  /\ pc' = "awaiting"
  /\ UNCHANGED << missingCards, ebayCache, errorLog, listings, model, result,
                  solution, varsRead, files, now, trace >>

\* fetch() resolves with an OK response: await response.json().
ResponseOk(i) ==
  /\ calls[i].st = "inflight"
  /\ calls' = [ calls EXCEPT ![i].st = "json" ]
  /\ UNCHANGED << missingCards, ebayCache, errorLog, pc, listings, model,
                  result, solution, varsRead, files, now, trace >>

\* fetch() resolves with a non-OK response: await response.text(), throw.
ResponseNotOk(i) ==
  /\ calls[i].st = "inflight"
  /\ calls' = [ calls EXCEPT ![i].st = "text" ]
  /\ UNCHANGED << missingCards, ebayCache, errorLog, pc, listings, model,
                  result, solution, varsRead, files, now, trace >>

FetchFailsStoring(i) ==
  /\ calls[i].st \in { "inflight", "json", "text" }
  /\ calls' = [ calls EXCEPT ![i] = Caught(calls[i]) ]
  /\ errorLog' = errorLog \cup { calls[i].card.name }
  /\ ebayCache' = CacheSet(ebayCache, buildSearchQuery(calls[i].card), <<>>)
  /\ UNCHANGED << missingCards, pc, listings, model, result,
                  solution, varsRead, files, now, trace >>

\* fetch() rejects, the body cannot be parsed, or the error is thrown once
\* the text of a non-OK response is in: the catch block runs.
FetchFails(i) ==
  /\ calls[i].st \in { "inflight", "json", "text" }
  /\ calls' = [ calls EXCEPT ![i] = Caught(calls[i]) ]
  /\ errorLog' = errorLog \cup { calls[i].card.name }
  /\ UNCHANGED << missingCards, ebayCache, pc, listings, model, result,
                  solution, varsRead, files, now, trace >>

\* The body is in: map the item summaries, store them, return them.
JsonParsed(i) ==
  /\ calls[i].st = "json"
  /\ \E items \in Responses :
       LET ls == MapListings(items, calls[i].card)
       IN  /\ calls' = [ calls EXCEPT ![i].st = "done", ![i].result = ls ]
           /\ ebayCache' = CacheSet(ebayCache, buildSearchQuery(calls[i].card), ls)
  /\ UNCHANGED << missingCards, errorLog, pc, listings, model, result,
                  solution, varsRead, files, now, trace >>

\* Promise.all settles; listingsArray.flat() goes back to main.
FetchAllReturns ==
  /\ pc = "awaiting"
  /\ AllDone(calls)
  /\ listings' = Collected(calls)
  /\ pc' = "fetched"
  /\ UNCHANGED << missingCards, ebayCache, calls, errorLog, model, result,
                  solution, varsRead, files, now, trace >>

\* ------------------------------------------------------------------ main
NoListings ==
  /\ pc = "fetched"
  /\ Len(listings) = 0
  /\ pc' = "exit"
  /\ UNCHANGED << missingCards, ebayCache, calls, errorLog, listings, model,
                  result, solution, varsRead, files, now, trace >>

BuildAlways ==
  /\ pc = "fetched"
  /\ model' = buildIlpModel(listings, missingCards)
  /\ trace' = Append(trace, "build")
  /\ pc' = "built"
  /\ UNCHANGED << missingCards, ebayCache, calls, errorLog, listings, result,
                  solution, varsRead, files, now >>

Build ==
  /\ pc = "fetched"
  /\ Len(listings) # 0
  /\ model' = buildIlpModel(listings, missingCards)
  /\ trace' = Append(trace, "build")
  /\ pc' = "built"
  /\ UNCHANGED << missingCards, ebayCache, calls, errorLog, listings, result,
                  solution, varsRead, files, now >>

\* solveIlp line 72: the blocking call into the engine.
Solve ==
  /\ pc = "built"
  /\ result' \in SolveResults(model)
  /\ trace' = Append(trace, "solve")
  /\ pc' = "solved"
  /\ UNCHANGED << missingCards, ebayCache, calls, errorLog, listings, model,
                  solution, varsRead, files, now >>

\* solveIlp lines 74-97: status check and decoding.
Decode ==
  /\ pc = "solved"
  /\ solution' = solveIlp(result, listings)
  /\ varsRead' = StatusOk(result.status)
  /\ trace' = Append(trace, "decode")
  /\ pc' = "decoded"
  /\ UNCHANGED << missingCards, ebayCache, calls, errorLog, listings, model,
                  result, files, now >>

NoSolution ==
  /\ pc = "decoded"
  /\ solution.kind = "null"
  /\ pc' = "exit"
  /\ UNCHANGED << missingCards, ebayCache, calls, errorLog, listings, model,
                  result, solution, varsRead, files, now, trace >>

\* The report (which sorts chosenListings in place) and the export.
Export ==
  /\ pc = "decoded"
  /\ solution.kind = "solution"
  /\ \E t \in now..MaxTime :
       LET sorted == SortBySeller(solution.chosenListings)
           name == FileName("chosen_listings", t)
       IN  /\ solution' = [ solution EXCEPT !.chosenListings = sorted ]
           /\ files' = CacheSet(files, name, CsvRows(sorted))
           /\ now' = t
  /\ trace' = Append(trace, "export")
  /\ pc' = "exit"
  /\ UNCHANGED << missingCards, ebayCache, calls, errorLog, listings, model,
                  result, varsRead >>

Next ==
  \/ StartFetchAll
  \/ \E i \in 1..Len(calls) : ResponseOk(i)
  \/ \E i \in 1..Len(calls) : ResponseNotOk(i)
  \/ \E i \in 1..Len(calls) : FetchFails(i)
  \/ \E i \in 1..Len(calls) : JsonParsed(i)
  \/ FetchAllReturns
  \/ NoListings
  \/ Build
  \/ Solve
  \/ Decode
  \/ NoSolution
  \/ Export

Spec == Init /\ [][Next]_vars

TypeOK ==
  /\ pc \in { "start", "awaiting", "fetched", "built", "solved", "decoded", "exit" }
  /\ Len(calls) \in { 0, Len(missingCards) }

\* ================================================================= claims
Decoded == pc \in { "decoded", "exit" } /\ solution.kind = "solution"

Distinct(s) == \A i, j \in 1..Len(s) : i # j => s[i] # s[j]

\* A run on pairwise different cards in which eBay returned no listing id
\* twice: every name in the program is then used once per linear form.
CleanRun ==
  /\ Distinct(missingCards)
  /\ Distinct([ k \in 1..Len(listings) |-> listings[k].listingId ])

CleanDecoded == Decoded /\ CleanRun

HasListings(j) == calls[j].result # <<>>
CardsWithListings == { j \in 1..Len(calls) : HasListings(j) }

ChosenFor(cardData) ==
  { k \in 1..Len(solution.chosenListings) :
      /\ solution.chosenListings[k].card = cardData.name
      /\ solution.chosenListings[k].cardNumber = cardData.cardNumber }

\* The shipping charge of a seller: the largest shipping cost among the
\* seller's listings.
RECURSIVE MaxShipping(_, _)
MaxShipping(ls, seller) ==
  IF ls = <<>> THEN 0
  ELSE IF Head(ls).seller = seller
       THEN Max2(Head(ls).shipping, MaxShipping(Tail(ls), seller))
       ELSE MaxShipping(Tail(ls), seller)

PriceSum(ls) == SumSeq([ k \in 1..Len(ls) |-> ls[k].price ])

ShippingSum(sellers) ==
  SumSeq([ k \in 1..Len(sellers) |-> MaxShipping(listings, sellers[k]) ])

\* Cost of a basket under the objective of the specification.
BasketCost(ls) == PriceSum(ls) + ShippingSum(SellersOf(ls))

\* Every way of buying one listing for each card that has listings.
Choices ==
  { f \in [ CardsWithListings -> 1..Len(ItemSeq) ] :
      \A j \in CardsWithListings : f[j] <= Len(calls[j].result) }

RECURSIVE BasketOf(_, _)
BasketOf(f, j) ==
  IF j > Len(calls) THEN <<>>
  ELSE ( IF j \in CardsWithListings THEN << calls[j].result[f[j]] >> ELSE <<>> )
       \o BasketOf(f, j + 1)

MinBasketCost ==
  LET costs == { BasketCost(BasketOf(f, 1)) : f \in Choices }
  IN  CHOOSE c \in costs : \A d \in costs : c <= d

\* C1: a decoded solution holds exactly one chosen listing for each card
\* that has at least one listing, and as many chosen listings as there are
\* such cards, also when cards share a name or a listingId.
C1_ExactlyOnePerCard ==
  CleanDecoded =>
    /\ \A j \in CardsWithListings : Cardinality(ChosenFor(calls[j].card)) = 1
    /\ Len(solution.chosenListings) = Cardinality(CardsWithListings)

\* C2: every seller in chosenSellers has at least one listing among the
\* chosen listings.
C2_NoIdleSeller ==
  CleanDecoded =>
    \A s \in Range(solution.chosenSellers) :
      \E k \in 1..Len(solution.chosenListings) :
        solution.chosenListings[k].seller = s

\* C3: totalCost equals the chosen prices plus the shipping charge of each
\* seller in chosenSellers.
C3_CostCrossCheck ==
  CleanDecoded =>
    solution.totalCost =
      PriceSum(solution.chosenListings) + ShippingSum(solution.chosenSellers)

\* C4: the reported solution is a minimum of prices plus one flat shipping
\* charge per seller used, over all choices of one listing per card; one
\* card listed by A at 10 + 5 and by B at 8 + 1 is bought from B for 9.
C4_MinimisesSpecObjective ==
  CleanDecoded =>
    /\ BasketCost(solution.chosenListings) = MinBasketCost
    /\ solution.totalCost = MinBasketCost

\* C5: a card without listings is never silently dropped: when a solution
\* is decoded, the card either kept a coverage row in the model or was
\* reported.
HasCoverageRow(cardData) ==
  \E r \in 1..Len(model.subjectTo) :
    model.subjectTo[r].name = << "exactly_one_", cardData.name >>

C5_UnsatisfiableItemReported ==
  CleanDecoded =>
    \A j \in 1..Len(calls) :
      ~HasListings(j) =>
        HasCoverageRow(calls[j].card) \/ calls[j].card.name \in errorLog

\* C6: at most one upstream request is in flight per search query.
C6_SingleFlight ==
  \A i, j \in 1..Len(calls) :
    ( /\ i # j
      /\ calls[i].st = "inflight"
      /\ calls[j].st = "inflight" )
    => buildSearchQuery(calls[i].card) # buildSearchQuery(calls[j].card)

\* C7: the model is built only after every fetch has returned, and build,
\* solve and decode happen in that order, each at most once.
IsPrefix(s, t) == Len(s) <= Len(t) /\ s = SubSeq(t, 1, Len(s))

C7_BuildAfterAllFetches ==
  /\ IsPrefix(trace, << "build", "solve", "decode", "export" >>)
  /\ trace # <<>> =>
       /\ Len(calls) = Len(missingCards)
       /\ \A i \in 1..Len(calls) : calls[i].st = "done"

C7_Witness ==
  /\ trace = << "build", "solve", "decode" >>
  /\ Distinct(missingCards)
  /\ Len(calls) = 2
  /\ calls[1].failed
  /\ HasListings(2)

\* C8: a failed fetch for one card yields no listings for that card and
\* nothing else: the listings of every other card reach main, the run goes
\* on to build and solve, and every other card with listings has its
\* coverage row over all its listings.
AnyFailed == \E i \in 1..Len(calls) : calls[i].failed

CoveredInModel(j) ==
  \E r \in 1..Len(model.subjectTo) :
    /\ model.subjectTo[r].name = << "exactly_one_", calls[j].card.name >>
    /\ \A k \in 1..Len(calls[j].result) :
         \E v \in 1..Len(model.subjectTo[r].vars) :
           model.subjectTo[r].vars[v].name = XName(calls[j].result[k])

C8_FailureIsolated ==
  /\ \A i \in 1..Len(calls) :
       calls[i].failed => calls[i].st = "done" /\ calls[i].result = <<>>
  /\ ( AnyFailed /\ pc \notin { "start", "awaiting" } ) =>
       \A j \in 1..Len(calls) : Range(calls[j].result) \subseteq Range(listings)
  /\ ( AnyFailed /\ pc = "exit" /\ CardsWithListings # {} ) =>
       /\ IsPrefix(<< "build", "solve", "decode" >>, trace)
       /\ \A j \in CardsWithListings : CoveredInModel(j)

C8_Witness ==
  /\ pc = "exit"
  /\ solution.kind = "solution"
  /\ Distinct(missingCards)
  /\ Len(calls) = 2
  /\ calls[1].failed
  /\ Len(calls[2].result) = 2
  /\ Len(solution.chosenListings) = 1

\* C9: a status other than optimal gives null, reads no variable value,
\* and main writes no file.
C9_NonOptimalGivesNull ==
  ( /\ pc \in { "decoded", "exit" }
    /\ result.kind = "result"
    /\ result.status # GLP_OPT ) =>
    /\ solution.kind = "null"
    /\ ~varsRead
    /\ files = EmptyMap
    /\ trace = << "build", "solve", "decode" >>

C9_Witness ==
  /\ pc = "exit"
  /\ result.kind = "result"
  /\ result.status = GLP_UNDEF
  /\ solution.kind = "null"
  /\ CleanRun

\* C10: the failure classes are told apart by the outcome of solveIlp: an
\* engine error, an infeasible program and a decoding invariant violation
\* give three different outcomes.
CrossCheckFails(sol) ==
  \/ Len(sol.chosenListings) # Cardinality(CardsWithListings)
  \/ sol.totalCost #
       PriceSum(sol.chosenListings) + ShippingSum(sol.chosenSellers)

FailureClass(res) ==
  IF res.status = GLP_NOFEAS THEN "infeasible"
  ELSE IF res.status # GLP_OPT THEN "error"
  ELSE IF CrossCheckFails(solveIlp(res, listings)) THEN "violation"
  ELSE "none"

C10_FailureClassesDistinct ==
  ( pc = "built" /\ Distinct(missingCards) ) =>
    \A r1, r2 \in SolveResults(model) :
      ( /\ FailureClass(r1) # "none"
        /\ FailureClass(r2) # "none"
        /\ FailureClass(r1) # FailureClass(r2) )
      => solveIlp(r1, listings) # solveIlp(r2, listings)

\* Value of a named variable in result.vars.
ValOf(rvars, name) ==
  LET k == CHOOSE k \in 1..Len(rvars) : rvars[k].name = name
  IN  rvars[k].val

\* C11: in every decoded solution the seller of every chosen listing is in
\* chosenSellers; the model holds one activation row per listing, and in
\* every optimal result a listing's variable is set only if its seller's
\* variable is set.
C11_ChosenSellerActive ==
  /\ Decoded =>
       \A k \in 1..Len(solution.chosenListings) :
         solution.chosenListings[k].seller \in Range(solution.chosenSellers)
  /\ ( pc = "solved" /\ result.status = GLP_OPT ) =>
       /\ \A k \in 1..Len(listings) :
            \E r \in 1..Len(model.subjectTo) :
              /\ model.subjectTo[r].name = << "activation_", listings[k].listingId >>
              /\ model.subjectTo[r].vars[2].name = YName(listings[k].seller)
       /\ \A k \in 1..Len(listings) :
            IsSet(ValOf(result.vars, XName(listings[k])))
              => IsSet(ValOf(result.vars, YName(listings[k].seller)))

\* A solution bought from two sellers has been decoded.
C11_Witness ==
  /\ Decoded
  /\ Len(solution.chosenListings) = 2
  /\ Cardinality(Range(solution.chosenSellers)) >= 2
  /\ \E k \in 1..2 : solution.chosenListings[k].seller = "UnknownSeller"

\* ------------------------------------------------------- successive runs
\* The program is started again after main has returned: everything the
\* process held (MISSING_CARDS is rebuilt the same, the cache Map is new)
\* starts afresh; the files written and the system clock stay.  new Date()
\* reads the system's wall clock, which nothing keeps ahead of the reading
\* of an earlier run (it can be set back between two runs).
NextRun ==
  /\ pc = "exit"
  /\ pc' = "start"
  /\ ebayCache' = EmptyMap
  /\ calls' = <<>>
  /\ errorLog' = {}
  /\ listings' = <<>>
  /\ model' = [ kind |-> "unset" ]
  /\ result' = [ kind |-> "unset" ]
  /\ solution' = [ kind |-> "unset" ]
  /\ varsRead' = FALSE
  /\ trace' = <<>>
  /\ UNCHANGED << missingCards, files, now >>

InitRuns == Init /\ Len(missingCards) <= MaxRunCards

NextRuns == Next \/ NextRun

SpecRuns == InitRuns /\ [][NextRuns]_vars

Exports == pc = "decoded" /\ pc' = "exit" /\ solution.kind = "solution"

\* C12: a run that exports writes a file whose name no earlier run has
\* written, so no file of an earlier run is replaced; and every file holds
\* one data row for each chosen listing of the run that wrote it.
C12_UniqueExportFile ==
  [][ Exports =>
        /\ \A name \in DOMAIN files :
             name \in DOMAIN files' /\ files'[name] = files[name]
        /\ Cardinality(DOMAIN files') = Cardinality(DOMAIN files) + 1
        /\ \E name \in DOMAIN files' \ DOMAIN files :
             Len(files'[name]) = Len(solution.chosenListings) ]_vars

SelectNames(m) == { k \in 1..Len(m.binaries) : m.binaries[k][1] = "x_" }
ActiveNames(m) == { k \in 1..Len(m.binaries) : m.binaries[k][1] = "y_" }

\* C13: the model built for the cards of a run declares one select
\* variable for each listing and one active variable for each distinct
\* seller: no name occurs twice in binaries, two different listings have
\* different select variables, and there are as many distinct select
\* variables as listings.
C13_OneBinaryPerListing ==
  ( model.kind = "model" /\ Distinct(missingCards) ) =>
    /\ Distinct(model.binaries)
    /\ \A k, m \in 1..Len(listings) :
         listings[k] # listings[m] => XName(listings[k]) # XName(listings[m])
    /\ Cardinality({ model.binaries[k] : k \in SelectNames(model) }) = Len(listings)
    /\ { model.binaries[k] : k \in ActiveNames(model) }
         = { YName(listings[k].seller) : k \in 1..Len(listings) }

\* ------------------------------------------------- solveIlp on any result
\* The decoding loop of solveIlp applied to whatever an engine can hand
\* back with status GLP_OPT for the model of one card's listings: every
\* variable valued 0, 0.5 or 1.
VarValues == { 0, Half, One }

ResultsOfAnyValue(m) ==
  LET cols == Cols(m)
  IN  { [ kind |-> "result", status |-> GLP_OPT, z |-> 0,
          vars |-> [ c \in 1..Len(cols) |-> [ name |-> cols[c], val |-> a[cols[c]] ] ] ]
        : a \in [ Range(cols) -> VarValues ] }

InitDecode ==
  /\ \E cardData \in CardPool : missingCards = << cardData >>
  /\ \E items \in Responses \ { <<>> } :
       listings = MapListings(items, missingCards[1])
  /\ model = buildIlpModel(listings, missingCards)
  /\ result \in ResultsOfAnyValue(model)
  /\ pc = "solved"
  /\ trace = << "build", "solve" >>
  /\ ebayCache = EmptyMap
  /\ calls = <<>>
  /\ errorLog = {}
  /\ solution = [ kind |-> "unset" ]
  /\ varsRead = FALSE
  /\ files = EmptyMap
  /\ now = 0

SpecDecode == InitDecode /\ [][Decode]_vars

ChosenIds == { solution.chosenListings[j].listingId : j \in 1..Len(solution.chosenListings) }

\* C14: solveIlp adds the listing of every select variable valued at least
\* 0.5 to chosenListings and the seller of every active variable valued at
\* least 0.5 to chosenSellers, a value of exactly 0.5 included.
C14_ThresholdAtLeastHalf ==
  Decoded =>
    \A k \in 1..Len(result.vars) :
      result.vars[k].val >= Half =>
        /\ result.vars[k].name[1] = "x_" => result.vars[k].name[2] \in ChosenIds
        /\ result.vars[k].name[1] = "y_" =>
             result.vars[k].name[2] \in Range(solution.chosenSellers)

\* C14 as amended: a listing is chosen exactly when its select variable is
\* valued above 0.5 and a seller exactly when its active variable is; a
\* value of exactly 0.5 counts as not set.
C14_ThresholdAboveHalf ==
  Decoded =>
    \A k \in 1..Len(result.vars) :
      /\ result.vars[k].name[1] = "x_" =>
           ( result.vars[k].val > Half <=> result.vars[k].name[2] \in ChosenIds )
      /\ result.vars[k].name[1] = "y_" =>
           ( result.vars[k].val > Half
               <=> result.vars[k].name[2] \in Range(solution.chosenSellers) )

\* Decoded: one variable at exactly 0.5 left out, another at 1 taken.
C14_Witness ==
  /\ Decoded
  /\ \E k, m \in 1..Len(result.vars) :
       /\ result.vars[k].name[1] = "x_" /\ result.vars[k].val = Half
       /\ result.vars[k].name[2] \notin ChosenIds
       /\ result.vars[m].name[1] = "x_" /\ result.vars[m].val = One
       /\ result.vars[m].name[2] \in ChosenIds
  /\ \E k \in 1..Len(result.vars) :
       /\ result.vars[k].name[1] = "y_" /\ result.vars[k].val = Half
       /\ result.vars[k].name[2] \notin Range(solution.chosenSellers)

\* ------------------------------------- fetchSingleCardListings, any caller
\* The exported function called any number of times, a call starting at
\* any moment: before, between or after the responses of earlier calls.
Call(cardData) ==
  /\ Len(calls) < MaxCalls
  /\ calls' = Append(calls, BeginCall(cardData, ebayCache))
  /\ UNCHANGED << missingCards, ebayCache, errorLog, pc, listings, model,
                  result, solution, varsRead, files, now, trace >>

InitCalls == Init /\ missingCards = <<>>

NextCalls ==
  \/ \E cardData \in CardPool : Call(cardData)
  \/ \E i \in 1..Len(calls) : ResponseOk(i)
  \/ \E i \in 1..Len(calls) : ResponseNotOk(i)
  \/ \E i \in 1..Len(calls) : FetchFails(i)
  \/ \E i \in 1..Len(calls) : JsonParsed(i)

SpecCalls == InitCalls /\ [][NextCalls]_vars

QueryOf(call) == buildSearchQuery(call.card)

\* Calls for the query that have returned listings they fetched or found.
Succeeded(cs, query) ==
  { i \in 1..Len(cs) : QueryOf(cs[i]) = query /\ cs[i].st = "done" /\ ~cs[i].failed }

Starts == Len(calls') = Len(calls) + 1

\* C15: once a call for a query has completed successfully, a call for
\* the query that starts later returns at once, with the listings the
\* cache holds (listings a successful call returned), without an upstream
\* request; and no entry ever leaves the cache.
C15_CacheHitAfterSuccess ==
  [][ /\ \A q \in DOMAIN ebayCache : q \in DOMAIN ebayCache'
      /\ Starts =>
           LET c == calls'[Len(calls')]
           IN  Succeeded(calls, QueryOf(c)) # {} =>
                 /\ c.st = "done" /\ c.cached /\ ~c.failed
                 /\ c.result = ebayCache[QueryOf(c)]
                 /\ \E i \in Succeeded(calls, QueryOf(c)) :
                      calls[i].result = c.result ]_vars

\* A call served from the cache after a call that fetched listings.
C15_Witness ==
  \E i, j \in 1..Len(calls) :
    /\ i < j
    /\ QueryOf(calls[i]) = QueryOf(calls[j])
    /\ calls[i].st = "done" /\ ~calls[i].failed /\ ~calls[i].cached
    /\ calls[i].result # <<>>
    /\ calls[j].cached /\ calls[j].result = calls[i].result

Failed(cs, query) ==
  { i \in 1..Len(cs) : QueryOf(cs[i]) = query /\ cs[i].failed }

\* C16: a call that fails changes nothing in the cache, and a call for a
\* query whose earlier calls have failed, none having succeeded, issues an
\* upstream request instead of returning a cached empty list.
C16_FailureNotCached ==
  [][ /\ ( \E i \in 1..Len(calls) : ~calls[i].failed /\ calls'[i].failed )
           => ebayCache' = ebayCache
      /\ Starts =>
           LET c == calls'[Len(calls')]
           IN  ( Failed(calls, QueryOf(c)) # {} /\ Succeeded(calls, QueryOf(c)) = {} )
                 => c.st = "inflight" /\ ~c.cached ]_vars

\* After a failed call, another call for the query went upstream and
\* brought listings back.
C16_Witness ==
  \E i, j \in 1..Len(calls) :
    /\ i < j
    /\ QueryOf(calls[i]) = QueryOf(calls[j])
    /\ calls[i].failed
    /\ calls[j].st = "done" /\ ~calls[j].failed /\ ~calls[j].cached
    /\ calls[j].result # <<>>
    /\ ebayCache[QueryOf(calls[j])] = calls[j].result

FetchReturned == pc \notin { "start", "awaiting" }

\* C17: a file exists only once solveIlp has returned a solution decoded
\* from a result of optimal status, after build, solve and decode; and a
\* run whose fetch returned no listing at all ends with no model built, no
\* solver call and no file.
C17_ExportOnlyAfterOptimal ==
  /\ files # EmptyMap =>
       /\ result.kind = "result" /\ result.status = GLP_OPT
       /\ solution.kind = "solution"
       /\ trace = << "build", "solve", "decode", "export" >>
       /\ pc = "exit"
  /\ ( FetchReturned /\ Len(listings) = 0 ) =>
       /\ pc \in { "fetched", "exit" }
       /\ model.kind = "unset" /\ result.kind = "unset" /\ solution.kind = "unset"
       /\ trace = <<>>
       /\ files = EmptyMap

\* A run on two different cards has exported its two chosen listings.
C17_Witness ==
  /\ pc = "exit"
  /\ Distinct(missingCards)
  /\ \E name \in DOMAIN files : Len(files[name]) = 2
  /\ result.status = GLP_OPT

\* Where the listings of the i-th card start in the list returned.
Offset(i) == SumSeq([ j \in 1..(i - 1) |-> Len(calls[j].result) ])

CachedOrNone(cardData) ==
  IF buildSearchQuery(cardData) \in DOMAIN ebayCache
  THEN ebayCache[buildSearchQuery(cardData)]
  ELSE <<>>

\* C18: the list fetchAllSingleCardListings has returned holds the result of
\* each card's call, whole and in the order of the cards given, under every
\* order in which the requests complete; for different cards it is the
\* concatenation, in that order, of what each call stored in the cache
\* when it completed (nothing for a failed call).
C18_ResultInInputOrder ==
  pc = "fetched" =>
    /\ Len(listings) = Offset(Len(calls) + 1)
    /\ \A i \in 1..Len(calls) :
         \A k \in 1..Len(calls[i].result) :
           /\ listings[Offset(i) + k] = calls[i].result[k]
           /\ listings[Offset(i) + k].card = missingCards[i].name
           /\ listings[Offset(i) + k].cardNumber = missingCards[i].cardNumber
    /\ Distinct(missingCards) =>
         listings = Flat([ i \in 1..Len(missingCards) |-> CachedOrNone(missingCards[i]) ])

\* Two different cards, two listings for the first and one, of another
\* item, for the second, have been returned.
C18_Witness ==
  /\ pc = "fetched"
  /\ Len(missingCards) = 2 /\ Distinct(missingCards)
  /\ Len(calls[1].result) = 2 /\ Len(calls[2].result) = 1
  /\ calls[2].result[1].listingId # calls[1].result[1].listingId
  /\ Len(listings) = 3

====
